---- MODULE Spec2Model ----
(***************************************************************************)
(* A model of src/src/lib/physics/physics.py: the SpringEngine dataclass,  *)
(* its RK4 integrator (step, _step_1d, _step_2d) and its closed-form       *)
(* solver (get_analytical_solution).                                       *)
(*                                                                         *)
(* Python's float is modelled as what it is, IEEE 754 binary64: a sign, a  *)
(* mantissa of Prec = 53 bits and a binary exponent, with every operation  *)
(* of the source (+ - * / math.sqrt math.hypot) one correctly rounded      *)
(* operation (round half to even), applied in the source's order.  The     *)
(* exponent is unbounded: overflow to inf, subnormals and the sign of zero *)
(* are not modelled.  A division by zero and the square root of a negative *)
(* number raise, as they do in Python; the exception is carried as an      *)
(* error value up to the method that raises.                               *)
(*                                                                         *)
(* A mantissa is wider than TLC's integers, so naturals are sequences of   *)
(* limbs of LimbBits bits, least significant first.                        *)
(***************************************************************************)
EXTENDS Integers, Sequences, FiniteSets

(***************************************************************************)
(* Naturals as limb sequences (no leading zero limb; << >> is zero).       *)
(***************************************************************************)
LimbBits == 15

Base == 2^LimbBits

Prec == 53

\* the element of a singleton.  The({e : x \in {v}}) is e with x bound to
\* the value of v, computed first and once: this is how a local variable
\* of the source is written below
The(S) == CHOOSE r \in S : TRUE

\* limb i of n, zero past its length
Limb(n, i) == IF i >= 1 /\ i <= Len(n) THEN n[i] ELSE 0

NTrim(n) ==
  LET nz == {i \in 1..Len(n) : n[i] # 0}
  IN  IF nz = {} THEN <<>>
      ELSE SubSeq(n, 1, CHOOSE i \in nz : \A j \in nz : j <= i)

\* a TLC integer i >= 0 as a natural
NFromInt(i) == NTrim(<<i % Base, (i \div Base) % Base, i \div (Base * Base)>>)

\* a + b; the carry into limb i is decided by the limbs below it
NAdd(a, b) ==
  LET n == (IF Len(a) > Len(b) THEN Len(a) ELSE Len(b)) + 1
      s == [i \in 1..n |-> Limb(a, i) + Limb(b, i)]
      c == [i \in 1..n |->
              IF \E j \in 1..(i - 1) :
                   s[j] >= Base /\ \A k \in (j + 1)..(i - 1) : s[k] = Base - 1
              THEN 1 ELSE 0]
  IN  NTrim([i \in 1..n |-> (s[i] + c[i]) % Base])

\* a - b for a >= b; the borrow into limb i likewise
NSub(a, b) ==
  LET bw == [i \in 1..Len(a) |->
               IF \E j \in 1..(i - 1) :
                    a[j] < Limb(b, j) /\ \A k \in (j + 1)..(i - 1) : a[k] = Limb(b, k)
               THEN 1 ELSE 0]
  IN  NTrim([i \in 1..Len(a) |-> (a[i] - Limb(b, i) - bw[i] + Base) % Base])

\* -1, 0, 1 as a < b, a = b, a > b
NCmp(a, b) ==
  IF Len(a) # Len(b) THEN (IF Len(a) < Len(b) THEN -1 ELSE 1)
  ELSE IF a = b THEN 0
  ELSE \* decided by the topmost limb that differs
       IF \E i \in 1..Len(a) :
            a[i] < b[i] /\ \A j \in (i + 1)..Len(a) : a[j] = b[j]
       THEN -1 ELSE 1

\* a * k for 0 <= k <= Base
NMulSmall(a, k) ==
  NAdd([i \in 1..Len(a) |-> (a[i] * k) % Base],
       <<0>> \o [i \in 1..Len(a) |-> (a[i] * k) \div Base])

NShiftLimbs(a, n) ==
  IF a = <<>> THEN <<>> ELSE [i \in 1..n |-> 0] \o a

\* a * b for b of at most four limbs: column n collects the low halves of
\* the limb products a[n + 1 - j] * b[j] and the high halves of column n - 1
NMul4(a, b) ==
  LET P(i, j) == Limb(a, i) * Limb(b, j)
      lo(n) == (P(n, 1) % Base) + (P(n - 1, 2) % Base)
               + (P(n - 2, 3) % Base) + (P(n - 3, 4) % Base)
      hi(n) == (P(n, 1) \div Base) + (P(n - 1, 2) \div Base)
               + (P(n - 2, 3) \div Base) + (P(n - 3, 4) \div Base)
  IN  The({ NAdd([n \in 1..(Len(a) + 4) |-> col[n] % Base],
                 <<0>> \o [n \in 1..(Len(a) + 4) |-> col[n] \div Base])
            : col \in {[n \in 1..(Len(a) + 4) |-> lo(n) + hi(n - 1)]} })

RECURSIVE NMul(_, _)
NMul(a, b) ==
  The({ IF Len(b) <= 4 THEN low
        ELSE NAdd(low, NShiftLimbs(NMul(a, SubSeq(b, 5, Len(b))), 4))
        : low \in {NMul4(a, SubSeq(b, 1, IF Len(b) <= 4 THEN Len(b) ELSE 4))} })

\* a * 2^d
NShl(a, d) ==
  NShiftLimbs(NMulSmall(a, 2^(d % LimbBits)), d \div LimbBits)

\* floor(a / 2^d)
NShr(a, d) ==
  LET n == d \div LimbBits
      p == 2^(d % LimbBits)
  IN  NTrim([i \in 1..(Len(a) - n) |->
               (Limb(a, i + n) \div p) + (Limb(a, i + n + 1) % p) * (Base \div p)])

\* the number of bits of 0 <= i < Base
IntBits(i) ==
  CHOOSE b \in 0..LimbBits : (b = 0 \/ 2^(b - 1) <= i) /\ i < 2^b

\* the number of bits of a
NBits(a) ==
  IF a = <<>> THEN 0 ELSE LimbBits * (Len(a) - 1) + IntBits(a[Len(a)])

\* floor(cur / d) for cur < d * Base and d's top limb >= Base / 2: the
\* estimate from the leading limbs is at most two too large
QuotDigit(cur, d) ==
  LET top == Limb(cur, Len(d) + 1) * Base + Limb(cur, Len(d))
      hi  == IF top \div d[Len(d)] > Base - 1 THEN Base - 1
             ELSE top \div d[Len(d)]
  IN  hi - Cardinality({q \in {hi - 1, hi} :
                          q >= 0 /\ NCmp(NMulSmall(d, q), cur) > 0})

\* one step of the long division by d: bring down limb x, emit a quotient limb
DivStep(d, x, st) ==
  The({ The({ [q |-> <<qd>> \o st.q, r |-> NSub(cur, NMulSmall(d, qd))]
              : qd \in {QuotDigit(cur, d)} })
        : cur \in {NTrim(<<x>> \o st.r)} })

\* long division of a by d from limb i down, one quotient limb at a time
RECURSIVE NDivLoop(_, _, _, _)
NDivLoop(a, d, i, st) ==
  IF i = 0 THEN st
  ELSE The({ NDivLoop(a, d, i - 1, s2) : s2 \in {DivStep(d, a[i], st)} })

\* the long division of a by d (d's top limb at least Base / 2): the top
\* Len(d) - 1 limbs of a are the first remainder
NDivNorm(a, d) ==
  IF Len(a) < Len(d) THEN [q |-> <<>>, r |-> a]
  ELSE NDivLoop(a, d, Len(a) - Len(d) + 1,
                [q |-> <<>>, r |-> SubSeq(a, Len(a) - Len(d) + 2, Len(a))])

\* quotient and remainder of a by d, d # 0 (both scaled by 2^s so that d's
\* top limb is at least Base / 2)
NDivMod(a, d) ==
  The({ The({ [q |-> NTrim(qr.q), r |-> NShr(qr.r, s)]
              : qr \in {NDivNorm(NShl(a, s), NShl(d, s))} })
        : s \in {LimbBits - IntBits(d[Len(d)])} })

\* floor(sqrt(n)) by Newton's iteration from above
RECURSIVE NSqrtIter(_, _)
NSqrtIter(n, x) ==
  The({ IF NCmp(y, x) >= 0 THEN x ELSE NSqrtIter(n, y)
        : y \in {NShr(NAdd(x, NDivMod(n, x).q), 1)} })

\* floor(sqrt(t)) for 0 <= t < Base * Base
IntSqrt(t) ==
  LET a == CHOOSE a \in 0..255 :
             (128 * a) * (128 * a) <= t
             /\ (a = 255 \/ (128 * a + 128) * (128 * a + 128) > t)
  IN  CHOOSE g \in (128 * a)..(128 * a + 127) :
        g * g <= t /\ (g + 1) * (g + 1) > t

\* floor(sqrt(n)); the iteration starts above the root, from the root of
\* the leading one or two limbs
NSqrt(n) ==
  IF n = <<>> THEN <<>>
  ELSE LET h == (Len(n) - 1) \div 2
       IN  NSqrtIter(n, NShiftLimbs(NFromInt(
             IntSqrt(Limb(n, 2 * h + 2) * Base + Limb(n, 2 * h + 1)) + 1), h))

(***************************************************************************)
(* Floats: [s |-> sign (-1, 0, 1), m |-> mantissa of exactly Prec bits,    *)
(* e |-> exponent], the value s * m * 2^e; zero is [s 0, m << >>, e 0].    *)
(* A raised exception is [err |-> its name].                               *)
(***************************************************************************)
Zero == [s |-> 0, m |-> <<>>, e |-> 0]

Raise(name) == [err |-> name]

IsErr(a) == "err" \in DOMAIN a

\* bit j (from 0) of n
Bit(n, j) == (Limb(n, (j \div LimbBits) + 1) \div 2^(j % LimbBits)) % 2

\* whether n has a nonzero bit below bit j
LowBits(n, j) ==
  \/ \E i \in 1..(j \div LimbBits) : Limb(n, i) # 0
  \/ Limb(n, (j \div LimbBits) + 1) % 2^(j % LimbBits) # 0

\* the mantissa q after a round up: it may have reached 2^Prec
RoundUp(s, q, e) ==
  IF NBits(q) > Prec THEN [s |-> s, m |-> NShr(q, 1), e |-> e + 1]
  ELSE [s |-> s, m |-> q, e |-> e]

\* n * 2^e (n # 0) rounded to Prec bits, half to even; sticky says that the
\* exact value lies strictly above n * 2^e in magnitude
Round(s, n, e, sticky) ==
  The({ IF k <= 0 THEN [s |-> s, m |-> NShl(n, -k), e |-> e + k]
        ELSE The({ IF Bit(n, k - 1) = 1
                      /\ (sticky \/ LowBits(n, k - 1) \/ Bit(n, k) = 1)
                   THEN RoundUp(s, NAdd(q, <<1>>), e + k)
                   ELSE [s |-> s, m |-> q, e |-> e + k]
                   : q \in {NShr(n, k)} })
        : k \in {NBits(n) - Prec} })

\* float(i) for a TLC integer i: exact, as |i| < 2^Prec
FromInt(i) ==
  IF i = 0 THEN Zero
  ELSE The({ [s |-> IF i < 0 THEN -1 ELSE 1,
              m |-> NShl(n, Prec - NBits(n)),
              e |-> NBits(n) - Prec]
             : n \in {NFromInt(IF i < 0 THEN -i ELSE i)} })

FNeg(a) == IF IsErr(a) THEN a ELSE [a EXCEPT !.s = -a.s]

FAbs(a) == IF IsErr(a) THEN a ELSE [a EXCEPT !.s = a.s * a.s]

\* |a| < |b| for nonzero a, b
MagLess(a, b) == a.e < b.e \/ (a.e = b.e /\ NCmp(a.m, b.m) < 0)

FLess(a, b) ==
  IF a.s # b.s THEN a.s < b.s
  ELSE IF a.s = 0 THEN FALSE
  ELSE IF a.s = 1 THEN MagLess(a, b)
  ELSE MagLess(b, a)

FLeq(a, b) == a = b \/ FLess(a, b)

\* big.e >= small.e, both nonzero; past Prec + 1 bits of distance the small
\* operand is below a quarter of the last place of the big one
AddAligned(big, small) ==
  IF big.e - small.e > Prec + 1 THEN big
  ELSE The({ The({
         IF big.s # small.s /\ c = 0 THEN Zero
         ELSE Round(IF big.s = small.s \/ c > 0 THEN big.s ELSE small.s,
                    IF big.s = small.s THEN NAdd(nb, small.m)
                    ELSE NSub(IF c > 0 THEN nb ELSE small.m,
                              IF c > 0 THEN small.m ELSE nb),
                    small.e, FALSE)
         : c \in {NCmp(nb, small.m)} })
         : nb \in {NShl(big.m, big.e - small.e)} })

FAdd(a, b) ==
  IF IsErr(a) THEN a
  ELSE IF IsErr(b) THEN b
  ELSE IF a.s = 0 THEN b
  ELSE IF b.s = 0 THEN a
  ELSE AddAligned(IF a.e >= b.e THEN a ELSE b, IF a.e >= b.e THEN b ELSE a)

FSub(a, b) == FAdd(a, FNeg(b))

FMul(a, b) ==
  IF IsErr(a) THEN a
  ELSE IF IsErr(b) THEN b
  ELSE IF a.s = 0 \/ b.s = 0 THEN Zero
  ELSE Round(a.s * b.s, NMul(a.m, b.m), a.e + b.e, FALSE)

FDiv(a, b) ==
  IF IsErr(a) THEN a
  ELSE IF IsErr(b) THEN b
  ELSE IF b.s = 0 THEN Raise("ZeroDivisionError")
  ELSE IF a.s = 0 THEN Zero
  ELSE The({ Round(a.s * b.s, dm.q, a.e - b.e - (Prec + 2), dm.r # <<>>)
             : dm \in {NDivMod(NShl(a.m, Prec + 2), b.m)} })

\* sqrt(n * 2^e) for a natural n # 0, correctly rounded: n is scaled to an
\* even exponent and to eight limbs or more (over 2 * Prec + 4 bits)
SqrtRound(n, e) ==
  LET w == IF NBits(n) >= 8 * LimbBits THEN 0 ELSE 8 * LimbBits - NBits(n)
      k == IF (e - w) % 2 = 0 THEN w ELSE IF w = 0 THEN 1 ELSE w - 1
  IN  The({ The({ Round(1, r, (e - k) \div 2, NMul(r, r) # v)
                  : r \in {NSqrt(v)} })
            : v \in {NShl(n, k)} })

\* math.sqrt
FSqrt(a) ==
  IF IsErr(a) THEN a
  ELSE IF a.s < 0 THEN Raise("ValueError")
  ELSE IF a.s = 0 THEN Zero
  ELSE SqrtRound(a.m, a.e)

\* math.hypot: the correctly rounded sqrt(a^2 + b^2)
HypotAligned(big, small) ==
  IF big.e - small.e > Prec + 1 THEN FAbs(big)
  ELSE The({ SqrtRound(NAdd(NMul(nb, nb), NMul(small.m, small.m)), 2 * small.e)
             : nb \in {NShl(big.m, big.e - small.e)} })

FHypot(a, b) ==
  IF IsErr(a) THEN a
  ELSE IF IsErr(b) THEN b
  ELSE IF a.s = 0 THEN FAbs(b)
  ELSE IF b.s = 0 THEN FAbs(a)
  ELSE HypotAligned(IF a.e >= b.e THEN a ELSE b, IF a.e >= b.e THEN b ELSE a)

\* the float literal i * 10^e, e.g. Dec(981, -2) for 9.81: the product or the
\* quotient of two integers below 2^Prec, rounded once
Dec(i, e) ==
  IF e >= 0 THEN FMul(FromInt(i), FromInt(10^e))
  ELSE FDiv(FromInt(i), FromInt(10^(-e)))

(***************************************************************************)
(* The float literals of the source.                                       *)
(***************************************************************************)
One == FromInt(1)

Two == FromInt(2)

Six == FromInt(6)

\* 1e-9, the threshold of forces and of get_analytical_solution
Eps == Dec(1, -9)

\* 1/120, the default dt of step
DefaultDt == FDiv(One, FromInt(120))

(***************************************************************************)
(* SpringEngine.  An engine is a record of the dataclass fields; a method  *)
(* is an operator from the engine (and the arguments) to the engine after  *)
(* the call, or to the exception it raises.                                *)
(***************************************************************************)
\* the dataclass with its defaults, overridden by the keyword arguments kw
SpringEngine(kw) ==
  [f \in {"m", "k", "c", "g", "L0", "mode", "x", "y", "vx", "vy", "t"} |->
     IF f \in DOMAIN kw THEN kw[f]
     ELSE CASE f = "m"    -> One
            [] f = "k"    -> FromInt(10)
            [] f = "c"    -> Dec(5, -1)
            [] f = "g"    -> Dec(981, -2)
            [] f = "L0"   -> One
            [] f = "mode" -> "1D"
            [] f = "x"    -> Dec(2, -1)
            [] OTHER      -> Zero]

\* the first exception among the values vs, in order; NoErr if none raised
NoErr == [ok |-> TRUE]

FirstErr(vs) ==
  IF \E i \in 1..Len(vs) : IsErr(vs[i])
  THEN vs[CHOOSE i \in 1..Len(vs) :
            IsErr(vs[i]) /\ \A j \in 1..(i - 1) : ~IsErr(vs[j])]
  ELSE NoErr

\* force(x, v) of _step_1d
force(self, x, v) ==
  FDiv(FSub(FMul(FNeg(self.k), x), FMul(self.c, v)), self.m)

\* a + b * dt / 2 and a + b * dt, the stage arguments of the RK4 scheme
HalfStage(a, b, dt) == FAdd(a, FDiv(FMul(b, dt), Two))

FullStage(a, b, dt) == FAdd(a, FMul(b, dt))

\* a + dt * (k1 + 2*k2 + 2*k3 + k4) / 6, the RK4 update of one field
RK4Update(a, dt, k1, k2, k3, k4) ==
  FAdd(a, FDiv(FMul(dt, FAdd(FAdd(FAdd(k1, FMul(Two, k2)), FMul(Two, k3)), k4)),
               Six))

\* a plausible bug: self.t = dt for self.t += dt
Advance_assign(t, dt) == dt

\* self.t += dt
Advance(t, dt) == FAdd(t, dt)

\* the engine after _step_1d(dt), or the exception raised
_step_1d(self, dt) ==
  The({ The({ The({ The({
    IF FirstErr(<<k1[1], k2[1], k3[1], k4[1]>>) # NoErr
    THEN FirstErr(<<k1[1], k2[1], k3[1], k4[1]>>)
    ELSE [self EXCEPT !.x  = RK4Update(self.x, dt, k1[2], k2[2], k3[2], k4[2]),
                      !.vx = RK4Update(self.vx, dt, k1[1], k2[1], k3[1], k4[1]),
                      !.t  = Advance(self.t, dt)]
    : k4 \in {<<force(self, FullStage(self.x, k3[2], dt),
                      FullStage(self.vx, k3[1], dt)),
                FullStage(self.vx, k3[1], dt)>>} })
    : k3 \in {<<force(self, HalfStage(self.x, k2[2], dt),
                      HalfStage(self.vx, k2[1], dt)),
                HalfStage(self.vx, k2[1], dt)>>} })
    : k2 \in {<<force(self, HalfStage(self.x, k1[2], dt),
                      HalfStage(self.vx, k1[1], dt)),
                HalfStage(self.vx, k1[1], dt)>>} })
    : k1 \in {<<force(self, self.x, self.vx), self.vx>>} })

\* a plausible bug: the guard on r dropped, the unit vector always (x/r, y/r)
Radial_unguarded(x, y) ==
  The({ [r |-> r, ux |-> FDiv(x, r), uy |-> FDiv(y, r)] : r \in {FHypot(x, y)} })

\* the radius r and the unit vector (ux, uy) of forces
Radial(x, y) ==
  The({ IF FLess(r, Eps) THEN [r |-> r, ux |-> Zero, uy |-> One]
        ELSE [r |-> r, ux |-> FDiv(x, r), uy |-> FDiv(y, r)]
        : r \in {FHypot(x, y)} })

\* F_spring + F_damp of forces, along the unit vector of u
RadialForce(self, u, vx, vy) ==
  FAdd(FMul(FNeg(self.k), FSub(u.r, self.L0)),
       FMul(FNeg(self.c), FAdd(FMul(vx, u.ux), FMul(vy, u.uy))))

\* forces(x, y, vx, vy) of _step_2d: the accelerations (ax, ay), or the
\* exception raised
forces(self, x, y, vx, vy) ==
  The({ IF FirstErr(<<u.ux, u.uy>>) # NoErr THEN FirstErr(<<u.ux, u.uy>>)
        ELSE The({ The({ IF FirstErr(<<a.ax, a.ay>>) # NoErr
                         THEN FirstErr(<<a.ax, a.ay>>) ELSE a
                         : a \in {[ax |-> FDiv(FMul(F, u.ux), self.m),
                                   ay |-> FDiv(FAdd(FMul(F, u.uy),
                                                    FMul(self.m, self.g)),
                                               self.m)]} })
                   : F \in {RadialForce(self, u, vx, vy)} })
        : u \in {Radial(x, y)} })

\* the engine after _step_2d(dt), or the exception raised
_step_2d(self, dt) ==
  The({ IF IsErr(k1) THEN k1 ELSE
  The({ The({ IF IsErr(k2) THEN k2 ELSE
  The({ The({ IF IsErr(k3) THEN k3 ELSE
  The({ The({ IF IsErr(k4) THEN k4 ELSE
    [self EXCEPT !.x  = RK4Update(self.x, dt, self.vx, k2_v.vx, k3_v.vx, k4_v.vx),
                 !.y  = RK4Update(self.y, dt, self.vy, k2_v.vy, k3_v.vy, k4_v.vy),
                 !.vx = RK4Update(self.vx, dt, k1.ax, k2.ax, k3.ax, k4.ax),
                 !.vy = RK4Update(self.vy, dt, k1.ay, k2.ay, k3.ay, k4.ay),
                 !.t  = Advance(self.t, dt)]
    : k4 \in {forces(self, FullStage(self.x, k3_v.vx, dt),
                     FullStage(self.y, k3_v.vy, dt), k4_v.vx, k4_v.vy)} })
    : k4_v \in {[vx |-> FullStage(self.vx, k3.ax, dt),
                 vy |-> FullStage(self.vy, k3.ay, dt)]} })
    : k3 \in {forces(self, HalfStage(self.x, k2_v.vx, dt),
                     HalfStage(self.y, k2_v.vy, dt), k3_v.vx, k3_v.vy)} })
    : k3_v \in {[vx |-> HalfStage(self.vx, k2.ax, dt),
                 vy |-> HalfStage(self.vy, k2.ay, dt)]} })
    : k2 \in {forces(self, HalfStage(self.x, self.vx, dt),
                     HalfStage(self.y, self.vy, dt), k2_v.vx, k2_v.vy)} })
    : k2_v \in {[vx |-> HalfStage(self.vx, k1.ax, dt),
                 vy |-> HalfStage(self.vy, k1.ay, dt)]} })
    : k1 \in {forces(self, self.x, self.y, self.vx, self.vy)} })

\* a plausible bug: the mode not consulted, the 2D integrator always run
step_always_2d(self, dt) ==
  The({ IF IsErr(after) THEN [self |-> self, ret |-> after]
        ELSE [self |-> after,
              ret  |-> [x |-> after.x, y |-> after.y,
                        vx |-> after.vx, vy |-> after.vy, t |-> after.t]]
        : after \in {_step_2d(self, dt)} })

\* step(dt): the engine after the call and the value returned (or raised)
step(self, dt) ==
  The({ IF IsErr(after) THEN [self |-> self, ret |-> after]
        ELSE [self |-> after,
              ret  |-> [x |-> after.x, y |-> after.y,
                        vx |-> after.vx, vy |-> after.vy, t |-> after.t]]
        : after \in {IF self.mode = "1D" THEN _step_1d(self, dt)
                     ELSE _step_2d(self, dt)} })

\* the initial displacement x0 and velocity v0 the closed form starts from
InitialConditions(self) ==
  IF self.mode = "1D" THEN [x0 |-> self.x, v0 |-> self.vx]
  ELSE The({ [x0 |-> r_current,
              v0 |-> IF FLess(Eps, r_current)
                     THEN FDiv(FAdd(FMul(self.vx, self.x), FMul(self.vy, self.y)),
                               r_current)
                     ELSE Zero]
             : r_current \in {FHypot(self.x, self.y)} })

\* the underdamped branch
Underdamped(omega_n, zeta, x0, v0) ==
  The({ The({
    IF FirstErr(<<omega_d, B>>) # NoErr THEN FirstErr(<<omega_d, B>>)
    ELSE [case |-> "underdamped", omega_n |-> omega_n, omega_d |-> omega_d,
          zeta |-> zeta, A |-> x0, B |-> B]
    : B \in {FDiv(FAdd(v0, FMul(FMul(zeta, omega_n), x0)), omega_d)} })
    : omega_d \in {FMul(omega_n, FSqrt(FSub(One, FMul(zeta, zeta))))} })

\* the critical branch
Critical(omega_n, zeta, x0, v0) ==
  [case |-> "critical", omega_n |-> omega_n, zeta |-> zeta,
   A |-> x0, B |-> FAdd(v0, FMul(omega_n, x0))]

\* the overdamped branch
Overdamped(omega_n, zeta, x0, v0) ==
  The({ The({ The({ The({
    IF FirstErr(<<sqrt_term, AB.A, AB.B>>) # NoErr
    THEN FirstErr(<<sqrt_term, AB.A, AB.B>>)
    ELSE [case |-> "overdamped", omega_n |-> omega_n, zeta |-> zeta,
          r1 |-> r.r1, r2 |-> r.r2, A |-> AB.A, B |-> AB.B]
    : AB \in {[A |-> FDiv(FSub(FMul(r.r2, x0), v0), det),
               B |-> FDiv(FSub(v0, FMul(r.r1, x0)), det)]} })
    : det \in {FSub(r.r2, r.r1)} })
    : r \in {[r1 |-> FMul(FNeg(omega_n), FSub(zeta, sqrt_term)),
              r2 |-> FMul(FNeg(omega_n), FAdd(zeta, sqrt_term))]} })
    : sqrt_term \in {FSqrt(FSub(FMul(zeta, zeta), One))} })

\* a plausible bug: zeta <= 1.0 for zeta < 1.0 in the first test
Regime_leq(zeta) ==
  IF FLeq(zeta, One) THEN "underdamped"
  ELSE IF FLess(FAbs(FSub(zeta, One)), Eps) THEN "critical"
  ELSE "overdamped"

\* the branch taken on zeta
Regime(zeta) ==
  IF FLess(zeta, One) THEN "underdamped"
  ELSE IF FLess(FAbs(FSub(zeta, One)), Eps) THEN "critical"
  ELSE "overdamped"

\* the dictionary get_analytical_solution returns, or the exception it raises
Solution(self) ==
  The({ IF IsErr(omega_n) THEN omega_n ELSE
  The({ IF IsErr(zeta) THEN zeta ELSE
  The({ IF Regime(zeta) = "underdamped"
        THEN Underdamped(omega_n, zeta, ic.x0, ic.v0)
        ELSE IF Regime(zeta) = "critical"
        THEN Critical(omega_n, zeta, ic.x0, ic.v0)
        ELSE Overdamped(omega_n, zeta, ic.x0, ic.v0)
        : ic \in {InitialConditions(self)} })
        : zeta \in {FDiv(self.c, FMul(Two, FSqrt(FMul(self.k, self.m))))} })
        : omega_n \in {FSqrt(FDiv(self.k, self.m))} })

\* a plausible bug: the radial displacement x0 stored back into self.x
get_analytical_solution_storing(self) ==
  [self |-> [self EXCEPT !.x = InitialConditions(self).x0],
   ret  |-> Solution(self)]

\* get_analytical_solution(): the engine after the call (no field is
\* assigned) and the value returned (or raised)
get_analytical_solution(self) ==
  [self |-> self, ret |-> Solution(self)]

(***************************************************************************)
(* The program: one engine and the calls a client makes on it.             *)
(*   self      the engine                                                  *)
(*   ret       what the last call returned or raised                       *)
(*   last      the last call: its name, its dt, the engine before it       *)
(*   initial   the engine as constructed                                   *)
(*   stepsOnly the engine as the step calls alone would have left it       *)
(*   n         the number of calls made                                    *)
(*   loop_dt   the dt of the fixed-rate loop                               *)
(***************************************************************************)
VARIABLES self, ret, last, initial, stepsOnly, n, loop_dt

vars == <<self, ret, last, initial, stepsOnly, n, loop_dt>>

\* the calls a client makes on one engine
MaxCalls == 3

\* the iterations of the fixed-rate loop
LoopSteps == 6

NoValue == [none |-> TRUE]

\* engine = SpringEngine(**kw), in a client that steps at the rate dt
Constructed(kw, dt) ==
  /\ self = SpringEngine(kw)
  /\ ret = NoValue
  /\ last = [op |-> "__init__", dt |-> Zero, pre |-> self]
  /\ initial = self
  /\ stepsOnly = self
  /\ n = 0
  /\ loop_dt = dt

\* engine.step(dt)
Step(dt) ==
  /\ \E r \in {[e \in {self, stepsOnly} |-> step(e, dt)]} :
       /\ self' = r[self].self
       /\ ret' = r[self].ret
       /\ stepsOnly' = r[stepsOnly].self
  /\ last' = [op |-> "step", dt |-> dt, pre |-> self]
  /\ n' = n + 1
  /\ UNCHANGED <<initial, loop_dt>>

\* engine.get_analytical_solution()
GetAnalyticalSolution ==
  /\ \E r \in {get_analytical_solution(self)} : self' = r.self /\ ret' = r.ret
  /\ last' = [op |-> "get_analytical_solution", dt |-> Zero, pre |-> self]
  /\ n' = n + 1
  /\ UNCHANGED <<initial, stepsOnly, loop_dt>>

(***************************************************************************)
(* Spec: a client that constructs an engine and makes any MaxCalls calls.  *)
(***************************************************************************)
\* the constructions: valid engines of both modes, at and near the origin,
\* and parameter sets the dataclass accepts unchecked
InitKw ==
  { <<>>,
    [y |-> One, vy |-> Two],
    [m |-> Zero],
    [k |-> FromInt(-1)],
    [c |-> FromInt(-1)],
    [mode |-> "VECTOR"],
    [mode |-> "VECTOR", x |-> Zero, vx |-> One, vy |-> Two],
    [mode |-> "VECTOR", x |-> FDiv(Eps, FromInt(10)), y |-> FDiv(Eps, FromInt(-2)),
     vy |-> One],
    [mode |-> "VECTOR", m |-> Zero] }

\* the step sizes: none, the default, a coarse one
DtSet == {Zero, DefaultDt, Dec(1, -1)}

Init == \E kw \in InitKw : Constructed(kw, DefaultDt)

Next ==
  /\ n < MaxCalls
  /\ \/ \E dt \in DtSet : Step(dt)
     \/ GetAnalyticalSolution

Spec == Init /\ [][Next]_vars

(***************************************************************************)
(* SpecRegime: get_analytical_solution over a grid of parameter sets       *)
(* around the regime boundary zeta = 1 (c = 2 for k * m = 1, c = 4 for     *)
(* k * m = 4, c = 8 for k * m = 16) and at k = 0.                          *)
(***************************************************************************)
RegimeC ==
  { Zero, Dec(2, -1), Dec(1999999999, -9), Two, Dec(2000000001, -9),
    Dec(2000000004, -9), FromInt(4), FromInt(10) }

RegimeKw ==
  { [m |-> m, k |-> k, c |-> c, mode |-> mode] :
      m \in {One, FromInt(4)}, k \in {Zero, One, FromInt(4)}, c \in RegimeC,
      mode \in {"1D", "VECTOR"} }

RegimeInit == \E kw \in RegimeKw : Constructed(kw, DefaultDt)

RegimeNext == n < MaxCalls /\ GetAnalyticalSolution

SpecRegime == RegimeInit /\ [][RegimeNext]_vars

(***************************************************************************)
(* SpecLoop: the fixed-rate loop, LoopSteps calls of step(dt) with one dt. *)
(***************************************************************************)
LoopKw ==
  { <<>>,
    [k |-> FromInt(4), c |-> Dec(2, -1)],
    [k |-> Zero, x |-> Zero, vx |-> One],
    [x |-> Zero, vx |-> One],
    [m |-> Zero],
    [mode |-> "VECTOR"] }

\* the default rate, a coarse step, a step past the stability limit of RK4
LoopDt == {DefaultDt, Dec(1, -1), One}

LoopInit == \E kw \in LoopKw : \E dt \in LoopDt : Constructed(kw, dt)

LoopNext == n < LoopSteps /\ Step(loop_dt)

SpecLoop == LoopInit /\ [][LoopNext]_vars

(***************************************************************************)
(* The claims.  A call is told by last: last.op is the method, last.pre    *)
(* the engine it was called on, last.dt the dt of a step; ret is what it   *)
(* returned or raised.                                                     *)
(***************************************************************************)
Stepped == last.op = "step"

Solved == last.op = "get_analytical_solution"

Raised == IsErr(ret)

Cases == {"underdamped", "critical", "overdamped"}

\* the parameter sets the spec calls valid: m > 0, k >= 0, c >= 0
ValidParameters(e) ==
  FLess(Zero, e.m) /\ FLeq(Zero, e.k) /\ FLeq(Zero, e.c)

\* the damping ratio c / (2 * sqrt(k * m))
Zeta(e) == FDiv(e.c, FMul(Two, FSqrt(FMul(e.k, e.m))))

\* the dictionary step returns for the engine e
StateOf(e) == [x |-> e.x, y |-> e.y, vx |-> e.vx, vy |-> e.vy, t |-> e.t]

\* 0.5 * m * vx**2 + 0.5 * k * x**2
Energy(e) ==
  FAdd(FMul(FMul(Dec(5, -1), e.m), FMul(e.vx, e.vx)),
       FMul(FMul(Dec(5, -1), e.k), FMul(e.x, e.x)))

\* 2^-52, the distance from 1.0 to the next float
MachineEps == [s |-> 1, m |-> One.m, e |-> -52 - (Prec - 1)]

\* C1 (as stated): whenever |zeta - 1| < 1e-9, get_analytical_solution
\* returns case "critical".  The code tests zeta < 1.0 first, so a zeta
\* just below 1 (m = 1, k = 1, c = 1.999999999) is "underdamped".
C1_TieBreakCritical ==
  (Solved /\ ~IsErr(Zeta(last.pre))
     /\ FLess(FAbs(FSub(Zeta(last.pre), One)), Eps))
    => (~Raised /\ ret.case = "critical")

\* C2: for m > 0, k > 0, c >= 0, get_analytical_solution returns one of
\* the three case tags, for the zeta of the parameters: "critical" when
\* zeta is exactly 1, "underdamped" when zeta <= 1 - 1e-9, "overdamped"
\* when zeta >= 1 + 1e-9.
C2_CaseByZeta ==
  (Solved /\ FLess(Zero, last.pre.m) /\ FLess(Zero, last.pre.k)
     /\ FLeq(Zero, last.pre.c))
    => /\ ~Raised
       /\ ret.case \in Cases
       /\ ret.zeta = Zeta(last.pre)
       /\ ret.zeta = One => ret.case = "critical"
       /\ FLeq(ret.zeta, FSub(One, Eps)) => ret.case = "underdamped"
       /\ FLeq(FAdd(One, Eps), ret.zeta) => ret.case = "overdamped"

\* C2's case: zeta exactly 1 (c = 2 * sqrt(k * m)) classified
C2_Witness ==
  /\ Solved /\ ~Raised
  /\ FLess(Zero, last.pre.k)
  /\ ret.zeta = One /\ ret.case = "critical"

\* C3 (as stated): no step or analytical call runs on an engine holding
\* m <= 0, k < 0 or c < 0.  The dataclass checks nothing: SpringEngine(m=0)
\* is constructed and its methods are called.
C3_NoCallOnInvalid ==
  (Stepped \/ Solved) => ValidParameters(last.pre)

\* C4 (as stated): for valid parameters, k = 0 included,
\* get_analytical_solution returns one of the three regimes and does not
\* raise.  With k = 0 the code divides c by 2 * sqrt(0 * m) = 0.
C4_SolutionTotal ==
  (Solved /\ ValidParameters(last.pre)) => (~Raised /\ ret.case \in Cases)

\* C5: get_analytical_solution leaves every field of the engine as it was,
\* so under any interleaving the engine equals the one the step calls
\* alone produce.
C5_SolutionIsPure ==
  /\ self = stepsOnly
  /\ Solved => self = last.pre

\* C5's case: an analytical call on a VECTOR engine that steps have moved
C5_Witness ==
  /\ Solved /\ ~Raised
  /\ self.mode = "VECTOR"
  /\ self.x # initial.x /\ self.t # initial.t

\* C6 (as stated, and only of the calls that return): each step sets
\* t' = t + dt, after N calls with the same dt > 0 from t = 0 the time is
\* N * dt, and t never decreases.
C6_TimeIsNTimesDt ==
  (Stepped /\ ~Raised /\ FLess(Zero, loop_dt))
    => /\ self.t = FAdd(last.pre.t, last.dt)
       /\ self.t = FMul(FromInt(n), loop_dt)
       /\ FLeq(last.pre.t, self.t)

\* C6 (amended): a step that returns sets t to the float sum of t and dt,
\* a step that raises leaves t as it was; after N returning calls with
\* the same dt > 0 from t = 0, t is N * dt up to the rounding accumulated,
\* |t - N * dt| <= N * 2^-52 * (N * dt), and t never decreases.
C6_TimeAdvances ==
  Stepped
    => /\ self.t = IF Raised THEN last.pre.t ELSE FAdd(last.pre.t, last.dt)
       /\ FLess(Zero, last.dt) => FLeq(last.pre.t, self.t)
       /\ (~Raised /\ FLess(Zero, loop_dt))
            => FLeq(FAbs(FSub(self.t, FMul(FromInt(n), loop_dt))),
                    FMul(FMul(FromInt(n), MachineEps),
                         FMul(FromInt(n), loop_dt)))

\* C6's case: the sixth step of the loop, the time no longer N * dt
C6_Witness ==
  /\ Stepped /\ ~Raised /\ n >= 6
  /\ self.t = FAdd(last.pre.t, loop_dt)
  /\ self.t # FMul(FromInt(n), loop_dt)

\* C7: in VECTOR mode with m > 0 a step never divides by zero: the force
\* law divides by r only when r >= 1e-9 and uses the unit vector (0, 1)
\* below that, so a step from (0, 0) returns a state.
C7_OriginIsSafe ==
  (Stepped /\ last.pre.mode = "VECTOR" /\ FLess(Zero, last.pre.m))
    => /\ ~Raised
       /\ ret = StateOf(self)
       /\ \E u \in {Radial(last.pre.x, last.pre.y)} :
            IF FLess(u.r, Eps) THEN u.ux = Zero /\ u.uy = One
            ELSE u.ux = FDiv(last.pre.x, u.r) /\ u.uy = FDiv(last.pre.y, u.r)

\* C7's case: a step taken exactly at the origin, with a velocity
C7_Witness ==
  /\ Stepped /\ ~Raised
  /\ last.pre.mode = "VECTOR" /\ FLess(Zero, last.pre.m)
  /\ last.pre.x = Zero /\ last.pre.y = Zero
  /\ last.pre.vx # Zero /\ last.dt # Zero
  /\ self.x # Zero

\* C8 (as stated): step(0) does not raise, leaves x, y, vx, vy, t as they
\* were and returns them.  On the engine SpringEngine(m=0), which C3 says
\* cannot exist, step(0) raises ZeroDivisionError.
C8_StepZeroIsNoOp ==
  (Stepped /\ last.dt = Zero)
    => (~Raised /\ self = last.pre /\ ret = StateOf(last.pre))

\* C9 (as stated): in 1D with c > 0, m > 0, k >= 0 and any dt > 0 the
\* energy after a step is no greater than before it, and smaller when
\* vx # 0.  RK4 is stable only for small dt * sqrt(k / m): with the default
\* parameters and dt = 1 the energy grows.
C9_EnergyDecays ==
  (Stepped /\ last.pre.mode = "1D" /\ FLess(Zero, last.dt)
     /\ FLess(Zero, last.pre.c) /\ FLess(Zero, last.pre.m)
     /\ FLeq(Zero, last.pre.k))
    => /\ FLeq(Energy(self), Energy(last.pre))
       /\ last.pre.vx # Zero => FLess(Energy(self), Energy(last.pre))

\* C10: in 1D mode the calls change only x, vx and t: y and vy keep their
\* initial values and the parameters stay as constructed.
C10_OnlyXVxT ==
  initial.mode = "1D"
    => \A f \in {"y", "vy", "m", "k", "c", "g", "L0", "mode"} :
         self[f] = initial[f]

\* C10's case: 1D steps that moved x, on an engine built with y and vy set
C10_Witness ==
  /\ Stepped /\ ~Raised /\ n >= 2
  /\ initial.mode = "1D"
  /\ initial.y # Zero /\ initial.vy # Zero
  /\ self.x # initial.x /\ self.vx # initial.vx /\ self.t # initial.t

====
